---- MODULE Spec2Model ----
(***************************************************************************)
(* Model of the to-do list manager in src/todo-app/main.cpp: the Task      *)
(* store (static vector<Task> tasks, static int nextId), its operations    *)
(* and the line-oriented text file it is saved to and loaded from.         *)
(*                                                                         *)
(* Text is modelled character by character: a string is a sequence of      *)
(* one-character strings, so that saving (operator<<) and loading          *)
(* (getline, operator>>, ignore) are real conversions.                     *)
(***************************************************************************)
EXTENDS Integers, Sequences, FiniteSets, TLC

VARIABLES tasks, nextId, file, last, everIds

vars == <<tasks, nextId, file, last, everIds>>

(***************************************************************************)
(* Bounds of the model.                                                    *)
(***************************************************************************)
\* Add and Load stop assigning ids once the counter has passed MaxId.
MaxId == 2
\* An input file has at most MaxLines lines.
MaxLines == 2

(***************************************************************************)
(* Program constants.                                                      *)
(***************************************************************************)
HIGHEST == 1
LOWEST == 5
\* std::numeric_limits<int>::max(), the largest value operator>> stores in an int
IntMax == 2147483647

(***************************************************************************)
(* Characters and numbers as text.                                         *)
(***************************************************************************)
DELIM == "|"
NL == "\n"
SP == " "
Digits == <<"0", "1", "2", "3", "4", "5", "6", "7", "8", "9">>
IsDigit(c) == \E i \in 1..10 : Digits[i] = c
DigitVal(c) == (CHOOSE i \in 1..10 : Digits[i] = c) - 1
\* isspace() in the classic locale, for the characters that occur
IsSpace(c) == c \in {SP, NL}

\* operator<< of a non-negative integer: its decimal digits
RECURSIVE NatText(_)
NatText(n) ==
    IF n < 10 THEN <<Digits[n + 1]>>
    ELSE NatText(n \div 10) \o <<Digits[(n % 10) + 1]>>

\* operator<< of an int or a time_t
NumText(n) == IF n < 0 THEN <<"-">> \o NatText(0 - n) ELSE NatText(n)

\* the character classes the stream operations stop at
Stops(kind, c) ==
    CASE kind = "delim" -> c = DELIM
      [] kind = "newline" -> c = NL
      [] kind = "notspace" -> ~IsSpace(c)
      [] kind = "notdigit" -> ~IsDigit(c)

\* first position >= p of s whose character is of the kind, or Len(s) + 1
RECURSIVE Scan(_, _, _)
Scan(s, p, kind) ==
    IF p > Len(s) THEN Len(s) + 1
    ELSE IF Stops(kind, s[p]) THEN p
    ELSE Scan(s, p + 1, kind)

\* value of the digits s[p..q-1] accumulated left to right from acc; -1 once it
\* no longer fits maxv
RECURSIVE Accumulate(_, _, _, _, _)
Accumulate(s, p, q, acc, maxv) ==
    IF p >= q THEN acc
    ELSE IF acc > (maxv - DigitVal(s[p])) \div 10 THEN -1
    ELSE Accumulate(s, p + 1, q, (acc * 10) + DigitVal(s[p]), maxv)

\* getline(file, desc, '|') from position p: the characters up to the next
\* delimiter, which is consumed. Without a delimiter the stream hits the end
\* of the file and is no longer good().
GetLine(s, p) ==
    LET q == Scan(s, p, "delim") IN
    IF q > Len(s) THEN [good |-> FALSE, val |-> SubSeq(s, p, Len(s)), pos |-> q]
    ELSE [good |-> TRUE, val |-> SubSeq(s, p, q - 1), pos |-> q + 1]

\* file >> n for a signed integer of largest value maxv, from position p:
\* leading whitespace is skipped, then an optional sign and digits are read.
\* good is file.good() afterwards: FALSE when no digit was there (failbit),
\* when the value does not fit (failbit), or when the digits ran up to the end
\* of the file (eofbit).
\* Each step of the extraction is an operator taking what the steps before it
\* found: p1 the first position that is not whitespace, neg whether a minus sign
\* is there, p2 the position of the first digit, p3 the position after the digits.
ExtractDigits(s, p1, neg, p2, p3, maxv) ==
    LET mag == Accumulate(s, p2, p3, 0, maxv)
    IN  IF p1 > Len(s) \/ p3 = p2 \/ p3 > Len(s) \/ mag < 0
        THEN [good |-> FALSE, val |-> 0, pos |-> p3]
        ELSE [good |-> TRUE, val |-> IF neg THEN 0 - mag ELSE mag, pos |-> p3]

ExtractFrom(s, p1, neg, p2, maxv) ==
    ExtractDigits(s, p1, neg, p2, Scan(s, p2, "notdigit"), maxv)

ExtractSign(s, p1, neg, maxv) ==
    ExtractFrom(s, p1, neg, IF neg THEN p1 + 1 ELSE p1, maxv)

ExtractAt(s, p1, maxv) == ExtractSign(s, p1, p1 <= Len(s) /\ s[p1] = "-", maxv)

Extract(s, p, maxv) == ExtractAt(s, Scan(s, p, "notspace"), maxv)

\* file.ignore(max, '\n') from position p: the position after the next newline
Ignore(s, p) ==
    LET q == Scan(s, p, "newline") IN IF q > Len(s) THEN q ELSE q + 1

(***************************************************************************)
(* The Task class.                                                         *)
(***************************************************************************)
\* An optional<T> argument that is not given
None == [has |-> FALSE]
Some(v) == [has |-> TRUE, val |-> v]

\* Task::validateTask: what it writes to cerr; nothing when the task is valid
ValidateErr(desc, prio) ==
    IF desc = <<>> THEN <<"Error: Description cannot be empty.">>
    ELSE IF prio < HIGHEST \/ prio > LOWEST
         THEN <<"Error: Priority must be between 1 and 5.">>
    ELSE <<>>

\* validateTask without the upper limit of the priority
validateTaskNoUpper(desc, prio) == desc # <<>> /\ prio >= HIGHEST

validateTask(desc, prio) == ValidateErr(desc, prio) = <<>>

\* Task::Task with the id the caller read from nextId
NewTask(id, desc, prio, due) ==
    [id |-> id, description |-> desc, priority |-> prio,
     completed |-> FALSE, dueDate |-> due]

Ids(ts) == {ts[i].id : i \in 1..Len(ts)}

RECURSIVE MaxOf(_)
MaxOf(S) ==
    IF S = {} THEN 0
    ELSE LET x == CHOOSE y \in S : TRUE
             m == MaxOf(S \ {x})
         IN  IF x > m THEN x ELSE m

\* the loop of loadTasksFromFile over the text s from position p; acc are the
\* tasks pushed so far, nid the running nextId, errs what went to cerr
RECURSIVE LoadLoop(_, _, _, _, _)
LoadLoop(s, p, acc, nid, errs) ==
    LET done == [tasks |-> acc, nid |-> nid, err |-> errs]
        d == GetLine(s, p)
        pr == Extract(s, d.pos, IntMax)
        co == Extract(s, pr.pos, IntMax)
        du == Extract(s, co.pos, IntMax)
        q == Ignore(s, du.pos)
    IN  IF p > Len(s) THEN done
        ELSE IF ~d.good THEN done
        ELSE IF ~pr.good THEN done
        ELSE IF ~co.good THEN done
        ELSE IF ~du.good THEN done
        ELSE IF d.val = <<>> \/ pr.val < HIGHEST \/ pr.val > LOWEST
             THEN LoadLoop(s, q, acc, nid,
                           Append(errs, "Skipping invalid task from file."))
        ELSE LoadLoop(s, q,
                      Append(acc, [NewTask(nid, d.val, pr.val, du.val)
                                      EXCEPT !.completed = (co.val # 0)]),
                      nid + 1, errs)

\* loadTasksFromFile numbering the loaded tasks from 1
LoadResultFromOne(f, ts, nid) ==
    IF ~f.exists THEN [tasks |-> ts, nextId |-> nid, err |-> <<>>, assigned |-> {}]
    ELSE LET r == LoadLoop(f.text, 1, <<>>, 1, <<>>) IN
         [tasks |-> r.tasks, nextId |-> MaxOf(Ids(r.tasks)) + 1, err |-> r.err,
          assigned |-> Ids(r.tasks)]

\* loadTasksFromFile setting the counter to the highest id loaded, not one past it
LoadResultMaxId(f, ts, nid) ==
    IF ~f.exists THEN [tasks |-> ts, nextId |-> nid, err |-> <<>>, assigned |-> {}]
    ELSE LET r == LoadLoop(f.text, 1, <<>>, nid, <<>>) IN
         [tasks |-> r.tasks,
          nextId |-> IF r.tasks = <<>> THEN 1 ELSE MaxOf(Ids(r.tasks)),
          err |-> r.err, assigned |-> Ids(r.tasks)]

\* loadTasksFromFile setting the counter to one past the number of tasks loaded
LoadResultBySize(f, ts, nid) ==
    IF ~f.exists THEN [tasks |-> ts, nextId |-> nid, err |-> <<>>, assigned |-> {}]
    ELSE LET r == LoadLoop(f.text, 1, <<>>, nid, <<>>) IN
         [tasks |-> r.tasks, nextId |-> Len(r.tasks) + 1, err |-> r.err,
          assigned |-> Ids(r.tasks)]

\* Task::loadTasksFromFile: the store after loading file f into the store
\* (ts, nid). A file that cannot be opened leaves the store as it is.
LoadResult(f, ts, nid) ==
    IF ~f.exists THEN [tasks |-> ts, nextId |-> nid, err |-> <<>>, assigned |-> {}]
    ELSE LET r == LoadLoop(f.text, 1, <<>>, nid, <<>>) IN
         [tasks |-> r.tasks, nextId |-> MaxOf(Ids(r.tasks)) + 1, err |-> r.err,
          assigned |-> Ids(r.tasks)]

\* a line that is not ended by a newline
TaskLineNoNewline(t) ==
    t.description \o <<DELIM>> \o NumText(t.priority) \o <<SP>>
        \o NumText(IF t.completed THEN 1 ELSE 0) \o <<SP>>
        \o NumText(t.dueDate)

\* the line saveTasksToFile writes for one task
TaskLine(t) ==
    t.description \o <<DELIM>> \o NumText(t.priority) \o <<SP>>
        \o NumText(IF t.completed THEN 1 ELSE 0) \o <<SP>>
        \o NumText(t.dueDate) \o <<NL>>

\* the loop of saveTasksToFile: the text written and what went to cerr
RECURSIVE SaveLoop(_, _, _, _)
SaveLoop(ts, i, text, errs) ==
    IF i > Len(ts) THEN [text |-> text, err |-> errs]
    ELSE IF ~validateTask(ts[i].description, ts[i].priority)
         THEN SaveLoop(ts, i + 1, text,
                       errs \o ValidateErr(ts[i].description, ts[i].priority)
                            \o <<"Error: Invalid Task - not saved.">>)
    ELSE SaveLoop(ts, i + 1, text \o TaskLine(ts[i]), errs)

\* the id taken as the position in the collection
IndexOfPosition(ts, id) == IF id \in 1..Len(ts) THEN id ELSE 0

\* index of the first task with the id, 0 when there is none
IndexOf(ts, id) ==
    IF id \in Ids(ts) THEN CHOOSE i \in 1..Len(ts) :
                               ts[i].id = id /\ \A j \in 1..(i - 1) : ts[j].id # id
    ELSE 0

\* updateTask assigning a given priority without validating it
UpdateResultNoPrioCheck(t, desc, prio, comp, due) ==
    LET failD == desc.has /\ ~validateTask(desc.val, t.priority)
        t1 == IF desc.has /\ ~failD THEN [t EXCEPT !.description = desc.val] ELSE t
        t2 == IF prio.has /\ ~failD THEN [t1 EXCEPT !.priority = prio.val] ELSE t1
        t3 == IF comp.has /\ ~failD THEN [t2 EXCEPT !.completed = comp.val] ELSE t2
        t4 == IF due.has /\ ~failD THEN [t3 EXCEPT !.dueDate = due.val] ELSE t3
    IN  [task |-> t4,
         err |-> IF failD THEN ValidateErr(desc.val, t.priority)
                               \o <<"Update failed due to invalid description.">>
                 ELSE <<>>]

\* updateTask assigning completed and dueDate before it validates
UpdateResultEager(t, desc, prio, comp, due) ==
    LET t0 == [t EXCEPT !.completed = IF comp.has THEN comp.val ELSE @,
                        !.dueDate = IF due.has THEN due.val ELSE @]
        failD == desc.has /\ ~validateTask(desc.val, t.priority)
        t1 == IF desc.has /\ ~failD THEN [t0 EXCEPT !.description = desc.val] ELSE t0
        failP == ~failD /\ prio.has /\ ~validateTask(t1.description, prio.val)
        t2 == IF prio.has /\ ~failD /\ ~failP THEN [t1 EXCEPT !.priority = prio.val] ELSE t1
    IN  [task |-> t2,
         err |-> IF failD THEN ValidateErr(desc.val, t.priority)
                               \o <<"Update failed due to invalid description.">>
                 ELSE IF failP THEN ValidateErr(t1.description, prio.val)
                               \o <<"Update failed due to invalid priority.">>
                 ELSE <<>>]

\* Task::updateTask on the task t it found: fields are validated and assigned
\* one after the other, description first
UpdateResult(t, desc, prio, comp, due) ==
    LET failD == desc.has /\ ~validateTask(desc.val, t.priority)
        t1 == IF desc.has /\ ~failD THEN [t EXCEPT !.description = desc.val] ELSE t
        failP == ~failD /\ prio.has /\ ~validateTask(t1.description, prio.val)
        t2 == IF prio.has /\ ~failD /\ ~failP THEN [t1 EXCEPT !.priority = prio.val] ELSE t1
        t3 == IF comp.has /\ ~failD /\ ~failP THEN [t2 EXCEPT !.completed = comp.val] ELSE t2
        t4 == IF due.has /\ ~failD /\ ~failP THEN [t3 EXCEPT !.dueDate = due.val] ELSE t3
    IN  [task |-> t4,
         err |-> IF failD THEN ValidateErr(desc.val, t.priority)
                               \o <<"Update failed due to invalid description.">>
                 ELSE IF failP THEN ValidateErr(t1.description, prio.val)
                               \o <<"Update failed due to invalid priority.">>
                 ELSE <<>>]

\* the comparator of sortTasksByPriority with the two directions exchanged
LessPriorityReversed(ascending, a, b) ==
    IF ascending THEN a.priority > b.priority ELSE a.priority < b.priority

\* the comparators of sortTasksByPriority and sortTasksByDueDate
LessPriority(ascending, a, b) ==
    IF ascending THEN a.priority < b.priority ELSE a.priority > b.priority

LessDueDate(ascending, a, b) ==
    IF ascending THEN a.dueDate < b.dueDate ELSE a.dueDate > b.dueDate

Less(key, ascending, a, b) ==
    IF key = "priority" THEN LessPriority(ascending, a, b)
    ELSE LessDueDate(ascending, a, b)

Perms(n) == {p \in [1..n -> 1..n] : \A i, j \in 1..n : p[i] = p[j] => i = j}

\* std::sort: some rearrangement of ts in which no element is less than one
\* before it. std::sort is not stable, so elements that compare equal may come
\* out in any order.
SortResults(ts, key, ascending) ==
    {r \in {[i \in 1..Len(ts) |-> ts[p[i]]] : p \in Perms(Len(ts))} :
        \A i, j \in 1..Len(ts) : i < j => ~Less(key, ascending, r[j], r[i])}

CompletedCount(ts) == Cardinality({i \in 1..Len(ts) : ts[i].completed})

\* the percentage computed by a division of integers
PercentageIntDiv(ts) ==
    IF ts = <<>> THEN 0 ELSE (CompletedCount(ts) \div Len(ts)) * 10000

\* displayCompletionPercentage: the percentage it prints with two decimals,
\* in hundredths of a percent
Percentage(ts) ==
    IF ts = <<>> THEN 0
    ELSE ((20000 * CompletedCount(ts)) + Len(ts)) \div (2 * Len(ts))

(***************************************************************************)
(* The state machine. tasks and nextId are the static members of Task,     *)
(* file is tasks.txt, last is what the last operation was and what it      *)
(* wrote to cerr and cout (for a load also which operation came before     *)
(* it), everIds are the ids tasks have held so far.                        *)
(***************************************************************************)
NoFile == [exists |-> FALSE, text |-> <<>>]
TextFile(text) == [exists |-> TRUE, text |-> text]

Did(op, err, shown, assigned) ==
    [op |-> op, err |-> err, shown |-> shown, assigned |-> assigned]

\* Task::nextId = 1 and an empty Task::tasks, before main() runs
Init ==
    /\ tasks = <<>>
    /\ nextId = 1
    /\ file = NoFile
    /\ last = Did("start", <<>>, <<>>, {})
    /\ everIds = {}

\* addTask numbering the new task by the size of the collection
addTaskBySize(desc, prio, due) ==
    /\ IF validateTask(desc, prio)
       THEN /\ tasks' = Append(tasks, NewTask(Len(tasks) + 1, desc, prio, due))
            /\ nextId' = nextId + 1
            /\ everIds' = everIds \cup {Len(tasks) + 1}
            /\ last' = Did("add", <<>>, <<>>, {Len(tasks) + 1})
       ELSE /\ UNCHANGED <<tasks, nextId, everIds>>
            /\ last' = Did("add", ValidateErr(desc, prio), <<>>, {})
    /\ UNCHANGED file

\* addTask pushing the task without validating it
addTaskUnchecked(desc, prio, due) ==
    /\ tasks' = Append(tasks, NewTask(nextId, desc, prio, due))
    /\ nextId' = nextId + 1
    /\ everIds' = everIds \cup {nextId}
    /\ last' = Did("add", <<>>, <<>>, {nextId})
    /\ UNCHANGED file

addTask(desc, prio, due) ==
    /\ IF validateTask(desc, prio)
       THEN /\ tasks' = Append(tasks, NewTask(nextId, desc, prio, due))
            /\ nextId' = nextId + 1
            /\ everIds' = everIds \cup {nextId}
            /\ last' = Did("add", <<>>, <<>>, {nextId})
       ELSE /\ UNCHANGED <<tasks, nextId, everIds>>
            /\ last' = Did("add", ValidateErr(desc, prio), <<>>, {})
    /\ UNCHANGED file

\* deleteTask erasing the task at the position the id names
deleteTaskByIndex(id) ==
    /\ tasks' = IF id \in 1..Len(tasks)
                THEN SubSeq(tasks, 1, id - 1) \o SubSeq(tasks, id + 1, Len(tasks))
                ELSE tasks
    /\ last' = Did("delete",
                   IF id \in 1..Len(tasks) THEN <<>> ELSE <<"Warning: No task found.">>,
                   <<>>, {})
    /\ UNCHANGED <<nextId, file, everIds>>

\* deleteTask setting the counter back to one past the highest id that is left
deleteTaskResync(id) ==
    /\ tasks' = SelectSeq(tasks, LAMBDA t : t.id # id)
    /\ nextId' = MaxOf(Ids(tasks')) + 1
    /\ last' = Did("delete",
                   IF id \in Ids(tasks) THEN <<>> ELSE <<"Warning: No task found.">>,
                   <<>>, {})
    /\ UNCHANGED <<file, everIds>>

deleteTask(id) ==
    /\ tasks' = SelectSeq(tasks, LAMBDA t : t.id # id)
    /\ last' = Did("delete",
                   IF id \in Ids(tasks) THEN <<>> ELSE <<"Warning: No task found.">>,
                   <<>>, {})
    /\ UNCHANGED <<nextId, file, everIds>>

updateTask(id, desc, prio, comp, due) ==
    LET i == IndexOf(tasks, id) IN
    /\ IF i = 0
       THEN /\ last' = Did("update", <<"Warning: No task found.">>, <<>>, {})
            /\ UNCHANGED tasks
       ELSE LET r == UpdateResult(tasks[i], desc, prio, comp, due) IN
            /\ last' = Did("update", r.err, <<>>, {})
            /\ tasks' = [tasks EXCEPT ![i] = r.task]
    /\ UNCHANGED <<nextId, file, everIds>>

sortTasksByPriority(ascending) ==
    /\ tasks' \in SortResults(tasks, "priority", ascending)
    /\ last' = Did("sortPriority", <<>>, <<>>, {})
    /\ UNCHANGED <<nextId, file, everIds>>

sortTasksByDueDate(ascending) ==
    /\ tasks' \in SortResults(tasks, "dueDate", ascending)
    /\ last' = Did("sortDueDate", <<>>, <<>>, {})
    /\ UNCHANGED <<nextId, file, everIds>>

\* filterTasksByStatus showing the tasks of the other status
filterTasksByStatusInverted(completedStatus) ==
    /\ last' = Did("filter", <<>>,
                   SelectSeq(tasks, LAMBDA t : t.completed # completedStatus), {})
    /\ UNCHANGED <<tasks, nextId, file, everIds>>

filterTasksByStatus(completedStatus) ==
    /\ last' = Did("filter", <<>>,
                   SelectSeq(tasks, LAMBDA t : t.completed = completedStatus), {})
    /\ UNCHANGED <<tasks, nextId, file, everIds>>

displayTasks ==
    /\ last' = Did("display", <<>>, tasks, {})
    /\ UNCHANGED <<tasks, nextId, file, everIds>>

displayCompletionPercentage ==
    /\ last' = Did("percentage", <<>>, <<Percentage(tasks)>>, {})
    /\ UNCHANGED <<tasks, nextId, file, everIds>>

\* canOpen: whether ofstream could open the destination
saveTasksToFile(canOpen) ==
    /\ IF canOpen
       THEN LET r == SaveLoop(tasks, 1, <<>>, <<>>) IN
            /\ file' = TextFile(r.text)
            /\ last' = Did("save", r.err, <<>>, {})
       ELSE /\ UNCHANGED file
            /\ last' = Did("save", <<"Error: Unable to open file for saving.">>, <<>>, {})
    /\ UNCHANGED <<tasks, nextId, everIds>>

loadTasksFromFile ==
    LET r == LoadResult(file, tasks, nextId) IN
    /\ tasks' = r.tasks
    /\ nextId' = r.nextId
    /\ everIds' = everIds \cup r.assigned
    /\ last' = [op |-> "load", err |-> r.err, shown |-> <<>>,
                assigned |-> r.assigned, after |-> last.op]
    /\ UNCHANGED file

\* something other than the program writes or removes tasks.txt
EditFile(f) ==
    /\ file' = f
    /\ file' # file
    /\ last' = Did("edit", <<>>, <<>>, {})
    /\ UNCHANGED <<tasks, nextId, everIds>>

(***************************************************************************)
(* Inputs.                                                                 *)
(***************************************************************************)
Str(a) == <<a>>

\* lines of a tasks.txt: well formed, priority out of range, empty
\* description, priority not a number, no delimiter, priority too large for an
\* int, and a well-formed record without its newline
LineA == <<"a", "|", "1", " ", "0", " ", "5", NL>>
LineB == <<"b", "|", "5", " ", "1", " ", "1", "7", NL>>
LineRange == <<"a", "|", "6", " ", "0", " ", "5", NL>>
LineNoDesc == <<"|", "1", " ", "0", " ", "5", NL>>
LineNotNum == <<"a", "|", "x", " ", "0", " ", "5", NL>>
LineNoDelim == <<"a", " ", "1", " ", "0", " ", "5", NL>>
LineHuge == <<"a", "|", "9", "9", "9", "9", "9", "9", "9", "9", "9", "9", "9",
              " ", "0", " ", "5", NL>>
LineOpen == <<"b", "|", "1", " ", "0", " ", "5">>

\* the whole Task class, every operation callable in any state
Next ==
    \/ /\ nextId <= MaxId
       /\ \E desc \in {<<>>, Str("a")}, prio \in {0, 1, 6}, due \in {5} :
              addTask(desc, prio, due)
    \/ \E id \in 1..MaxId : deleteTask(id)
    \/ \E id \in 1..MaxId, desc \in {None, Some(<<>>)}, prio \in {None, Some(6)},
          comp \in {None, Some(TRUE)}, due \in {None} :
           updateTask(id, desc, prio, comp, due)
    \/ \E ascending \in BOOLEAN : sortTasksByPriority(ascending)
    \/ \E ascending \in BOOLEAN : sortTasksByDueDate(ascending)
    \/ \E completedStatus \in BOOLEAN : filterTasksByStatus(completedStatus)
    \/ displayTasks
    \/ displayCompletionPercentage
    \/ \E canOpen \in BOOLEAN : saveTasksToFile(canOpen)
    \/ loadTasksFromFile /\ nextId' <= MaxId + 1
    \/ \E f \in {NoFile, TextFile(<<>>), TextFile(LineA \o LineA),
                 TextFile(LineRange \o LineA)} : EditFile(f)

Spec == Init /\ [][Next]_vars

(***************************************************************************)
(* Task's add, update and delete over all combinations of field values.    *)
(***************************************************************************)
AddDescs == {<<>>, Str("a")}
AddPrios == {0, 1, 6}
AddDues == {5}
EditDescs == {<<>>, Str("b")}
EditPrios == {5, 6}
EditComps == BOOLEAN
EditDues == {17}
Opt(S) == {None} \cup {Some(v) : v \in S}
OptDescs == Opt(EditDescs)
OptPrios == Opt(EditPrios)
OptComps == Opt(EditComps)
OptDues == Opt(EditDues)

NextEdit ==
    \/ /\ nextId <= MaxId
       /\ \E desc \in AddDescs, prio \in AddPrios, due \in AddDues :
              addTask(desc, prio, due)
    \/ \E id \in 1..MaxId : deleteTask(id)
    \/ \E id \in 1..MaxId, desc \in OptDescs, prio \in OptPrios,
          comp \in OptComps, due \in OptDues :
           updateTask(id, desc, prio, comp, due)

SpecEdit == Init /\ [][NextEdit]_vars

(***************************************************************************)
(* Saving and loading over files of every kind of line.                    *)
(***************************************************************************)
FileLines == {LineA, LineB, LineRange, LineNoDesc, LineNotNum, LineNoDelim, LineHuge}

\* the lists of at most n lines
RECURSIVE LineLists(_)
LineLists(n) ==
    IF n = 0 THEN {<<>>}
    ELSE LineLists(n - 1) \cup {Append(ls, l) : ls \in LineLists(n - 1), l \in FileLines}

RECURSIVE Concat(_)
Concat(ls) == IF ls = <<>> THEN <<>> ELSE Head(ls) \o Concat(Tail(ls))

\* the input files: whole lines, or whole lines and a last record that lacks
\* its newline
FileTexts ==
    {Concat(ls) : ls \in LineLists(MaxLines)}
        \cup {Concat(ls) \o LineOpen : ls \in LineLists(MaxLines - 1)}

\* tasks.txt is whatever an earlier run or an editor left
InitCodec ==
    /\ tasks = <<>>
    /\ nextId = 1
    /\ file \in {NoFile} \cup {TextFile(t) : t \in FileTexts}
    /\ last = Did("start", <<>>, <<>>, {})
    /\ everIds = {}

\* a load may take the counter up to twice the bound, so that a collection
\* that fills the bound can be saved and loaded again
NextCodec ==
    \/ /\ nextId <= MaxId
       /\ \E in \in {<<Str("a"), 1, 5>>, <<Str("c") \o Str(DELIM), 3, -2>>} :
              addTask(in[1], in[2], in[3])
    \/ \E id \in 1..(2 * MaxId) : deleteTask(id)
    \/ \E canOpen \in BOOLEAN : saveTasksToFile(canOpen)
    \/ loadTasksFromFile /\ nextId' <= (2 * MaxId) + 1

SpecCodec == InitCodec /\ [][NextCodec]_vars

(***************************************************************************)
(* main(): tasks.txt is loaded once, before the menu loop, and the menu    *)
(* only passes priorities that promptForPriority accepted.                 *)
(***************************************************************************)
MainFiles ==
    {NoFile, TextFile(<<>>), TextFile(LineA), TextFile(LineRange \o LineA)}

InitMain ==
    /\ tasks = <<>>
    /\ nextId = 1
    /\ file \in MainFiles
    /\ last = Did("start", <<>>, <<>>, {})
    /\ everIds = {}

Started == last.op # "start"

NextMain ==
    \/ ~Started /\ loadTasksFromFile
    \/ /\ Started
       /\ nextId <= MaxId
       /\ \E desc \in {<<>>, Str("a")}, prio \in {HIGHEST}, due \in {5} :
              addTask(desc, prio, due)
    \/ Started /\ \E id \in 1..MaxId : deleteTask(id)
    \/ /\ Started
       /\ \E id \in 1..MaxId, desc \in Opt({<<>>}), prio \in Opt({HIGHEST}),
             comp \in Opt({TRUE}), due \in Opt({5}) :
              updateTask(id, desc, prio, comp, due)
    \/ Started /\ \E ascending \in BOOLEAN : sortTasksByPriority(ascending)
    \/ Started /\ \E ascending \in BOOLEAN : sortTasksByDueDate(ascending)
    \/ Started /\ \E completedStatus \in BOOLEAN : filterTasksByStatus(completedStatus)
    \/ Started /\ displayTasks
    \/ Started /\ displayCompletionPercentage
    \/ Started /\ saveTasksToFile(TRUE)

SpecMain == InitMain /\ [][NextMain]_vars

(***************************************************************************)
(* Sorting collections of tasks of several priorities.                     *)
(***************************************************************************)
SortPrios == {1, 3, 5}

NextSort ==
    \/ /\ nextId <= MaxId + 1
       /\ \E prio \in SortPrios : addTask(Str("a"), prio, 5)
    \/ \E ascending \in BOOLEAN : sortTasksByPriority(ascending)
    \/ \E ascending \in BOOLEAN : sortTasksByDueDate(ascending)

SpecSort == Init /\ [][NextSort]_vars

(***************************************************************************)
(* Completion flags: tasks are added, completed, reopened and deleted, and *)
(* the collection is filtered by status and summed up.                     *)
(***************************************************************************)
QueryIds == 1..(MaxId + 2)
QueryDescs == Opt({<<>>})
QueryPrios == Opt({6})

NextQuery ==
    \/ /\ nextId <= MaxId + 2
       /\ addTask(Str("a"), HIGHEST, 5)
    \/ \E id \in QueryIds : deleteTask(id)
    \/ \E id \in QueryIds, desc \in QueryDescs, prio \in QueryPrios,
          comp \in OptComps :
           updateTask(id, desc, prio, comp, None)
    \/ \E completedStatus \in BOOLEAN : filterTasksByStatus(completedStatus)
    \/ displayCompletionPercentage

SpecQuery == Init /\ [][NextQuery]_vars

(***************************************************************************)
(* Properties.                                                             *)
(***************************************************************************)
\* the record t with every field that is given replaced
Applied(t, desc, prio, comp, due) ==
    [id |-> t.id,
     description |-> IF desc.has THEN desc.val ELSE t.description,
     priority |-> IF prio.has THEN prio.val ELSE t.priority,
     completed |-> IF comp.has THEN comp.val ELSE t.completed,
     dueDate |-> IF due.has THEN due.val ELSE t.dueDate]

\* C1: an Update of an existing id either applies every field that is given or,
\* when the description or the priority is invalid, leaves the record as it was.
UpdateAllOrNothing ==
    [][\A id \in 1..MaxId, desc \in OptDescs, prio \in OptPrios,
          comp \in OptComps, due \in OptDues :
           (id \in Ids(tasks) /\ updateTask(id, desc, prio, comp, due)) =>
               LET i == IndexOf(tasks, id)
                   new == Applied(tasks[i], desc, prio, comp, due)
               IN  IF validateTask(new.description, new.priority)
                   THEN tasks' = [tasks EXCEPT ![i] = new]
                   ELSE tasks' = tasks]_vars

\* C2: in main(), where the file is loaded once before the menu, a successful
\* Add gives the new task an id greater than, and different from, every id a
\* task has held so far.
AddIdFresh ==
    [][\A desc \in {Str("a")}, prio \in HIGHEST..LOWEST, due \in {5} :
           addTask(desc, prio, due) =>
               /\ Len(tasks') = Len(tasks) + 1
               /\ tasks'[Len(tasks')].id \notin everIds
               /\ \A old \in everIds : tasks'[Len(tasks')].id > old]_vars

\* a task was added after another one had been deleted
AddIdFreshWitness ==
    /\ last.op = "add"
    /\ last.assigned # {}
    /\ \E old \in everIds : old \notin Ids(tasks)

\* C3: no task is ever created, by Add or by Load, with an id that an earlier
\* task already held.
NoIdReuse ==
    [][last'.op \in {"add", "load"} => last'.assigned \cap everIds = {}]_vars

\* C4: an Add with an empty description or a priority outside 1..5 reports a
\* validation error and leaves the collection and the counter as they were.
AddRejected ==
    [][last'.op = "add" =>
           \A desc \in AddDescs, prio \in AddPrios, due \in AddDues :
               (addTask(desc, prio, due) /\ (desc = <<>> \/ prio \notin 1..5)) =>
                   /\ tasks' = tasks
                   /\ nextId' = nextId
                   /\ last'.err # <<>>]_vars

\* an Add was rejected for its priority while the collection held a task
AddRejectedWitness ==
    /\ last.op = "add"
    /\ last.err = <<"Error: Priority must be between 1 and 5.">>
    /\ tasks # <<>>

\* C5: in every state, an Update of an existing id with an empty description
\* leaves every field of its record as it is, whatever else is given.
UpdateEmptyDescription ==
    \A i \in 1..Len(tasks), prio \in OptPrios, comp \in OptComps, due \in OptDues :
        UpdateResult(tasks[i], Some(<<>>), prio, comp, due).task = tasks[i]

\* an Update was refused for its empty description
UpdateEmptyDescriptionWitness ==
    /\ last.op = "update"
    /\ last.err = <<"Error: Description cannot be empty.",
                    "Update failed due to invalid description.">>
    /\ tasks # <<>>

\* the fields of a task that the file holds
Fields(t) ==
    [description |-> t.description, priority |-> t.priority,
     completed |-> t.completed, dueDate |-> t.dueDate]

FieldsOf(ts) == [i \in 1..Len(ts) |-> Fields(ts[i])]

\* no description holds the delimiter or a newline
Plain(ts) ==
    \A i \in 1..Len(ts) : \A k \in 1..Len(ts[i].description) :
        ts[i].description[k] \notin {DELIM, NL}

\* what saveTasksToFile writes for the collection
SavedText(ts) == SaveLoop(ts, 1, <<>>, <<>>).text

\* C6: for every collection whose descriptions hold neither the delimiter nor a
\* newline, loading the file that Save writes gives as many tasks, in the same
\* order, with the same description, priority, completion flag and due date.
RoundTrip ==
    Plain(tasks) =>
        FieldsOf(LoadResult(TextFile(SavedText(tasks)), tasks, nextId).tasks)
            = FieldsOf(tasks)

\* two tasks were saved and loaded again
RoundTripWitness ==
    /\ last.op = "load"
    /\ last.after = "save"
    /\ file = TextFile(SavedText(tasks))
    /\ Len(tasks) = 2
    /\ Plain(tasks)
    /\ tasks[1].id > 2

\* what the lines of the input files mean to someone who reads the format
WellFormed(l) == l \in {LineA, LineB}

Meaning(l) ==
    IF l = LineA
    THEN [description |-> Str("a"), priority |-> 1, completed |-> FALSE, dueDate |-> 5]
    ELSE [description |-> Str("b"), priority |-> 5, completed |-> TRUE, dueDate |-> 17]

\* lines with an empty description or a number outside 1..5 as priority
Skippable(l) == l \in {LineRange, LineNoDesc, LineHuge}

RECURSIVE WellFormedOf(_)
WellFormedOf(ls) ==
    IF ls = <<>> THEN <<>>
    ELSE IF WellFormed(Head(ls)) THEN <<Meaning(Head(ls))>> \o WellFormedOf(Tail(ls))
    ELSE WellFormedOf(Tail(ls))

\* C7: after a Load, every well-formed line of the file is a task of the
\* collection, malformed lines before it or not.
LoadKeepsWellFormed ==
    (last.op = "load" /\ file.exists) =>
        \A ls \in LineLists(MaxLines) :
            Concat(ls) = file.text =>
                \A k \in 1..Len(ls) :
                    WellFormed(ls[k]) =>
                        \E i \in 1..Len(tasks) : Fields(tasks[i]) = Meaning(ls[k])

\* C8: after a Load of a file of well-formed lines and lines with an empty
\* description or an out-of-range priority, the collection holds the well-formed
\* lines in order and nothing else, and each other line got its diagnostic.
LoadSkipsInvalid ==
    (last.op = "load" /\ file.exists) =>
        \A ls \in LineLists(MaxLines) :
            (/\ Concat(ls) = file.text
             /\ \A k \in 1..Len(ls) : WellFormed(ls[k]) \/ Skippable(ls[k])) =>
                /\ FieldsOf(tasks) = WellFormedOf(ls)
                /\ Len(last.err) = Len(ls) - Len(tasks)

\* C9: after a Load when there is no file, nothing was reported and the
\* collection is empty.
LoadMissingEmpties ==
    (last.op = "load" /\ ~file.exists) => (tasks = <<>> /\ last.err = <<>>)

\* C10 as stated: after a Load of an existing file the k-th task has id k and
\* the counter is one past the last of them.
LoadIdsFromOne ==
    (last.op = "load" /\ file.exists) =>
        /\ \A k \in 1..Len(tasks) : tasks[k].id = k
        /\ nextId = Len(tasks) + 1

\* C10: a Load of an existing file gives the k-th accepted line the id n + k - 1,
\* n being the counter before the call, and leaves the counter one past the last
\* id it assigned, or at 1 when it accepted no line.
LoadIdsFromCounter ==
    [][(last'.op = "load" /\ file.exists) =>
           /\ \A k \in 1..Len(tasks') : tasks'[k].id = nextId + k - 1
           /\ nextId' = IF tasks' = <<>> THEN 1 ELSE nextId + Len(tasks')]_vars

\* a file with a skipped line was loaded when the counter was past 1
LoadIdsFromCounterWitness ==
    /\ last.op = "load"
    /\ file.exists
    /\ last.err # <<>>
    /\ tasks # <<>>
    /\ tasks[1].id > 1

\* C11 as stated: whenever the collection is not empty, the counter is one past
\* the highest id in it.
NextIdIsMaxPlusOne ==
    tasks # <<>> => nextId = MaxOf(Ids(tasks)) + 1

\* C11: whenever an operation leaves a non-empty collection, the counter is at
\* least one past the highest id in it; it is exactly one past it after a
\* successful Add and after a Load that accepted a line, and otherwise exactly
\* when it was so before and the highest id has not been deleted.
NextIdPastMax ==
    [][tasks' # <<>> =>
           /\ nextId' >= MaxOf(Ids(tasks')) + 1
           /\ (nextId' = MaxOf(Ids(tasks')) + 1) <=>
                  \/ last'.op \in {"add", "load"} /\ last'.assigned # {}
                  \/ /\ tasks # <<>>
                     /\ nextId = MaxOf(Ids(tasks)) + 1
                     /\ MaxOf(Ids(tasks')) = MaxOf(Ids(tasks))]_vars

\* the task with the highest id was deleted and another one is left
NextIdPastMaxWitness ==
    /\ last.op = "delete"
    /\ tasks # <<>>
    /\ nextId > MaxOf(Ids(tasks)) + 1

\* C12: in every state the ids of the tasks of the collection are pairwise
\* distinct.
IdsDistinct ==
    \A i, j \in 1..Len(tasks) : tasks[i].id = tasks[j].id => i = j

\* a Load in the middle of a run has put two tasks into the collection
IdsDistinctWitness ==
    /\ last.op = "load"
    /\ last.after = "edit"
    /\ Len(tasks) = 2
    /\ tasks[1].id # tasks[2].id

\* C13: in every state every task of the collection has a non-empty description
\* and a priority from 1 to 5.
TasksValid ==
    \A i \in 1..Len(tasks) :
        /\ tasks[i].description # <<>>
        /\ tasks[i].priority \in 1..5

\* an Update was refused for its priority
TasksValidWitness ==
    /\ last.op = "update"
    /\ last.err = <<"Error: Priority must be between 1 and 5.",
                    "Update failed due to invalid priority.">>
    /\ tasks # <<>>

\* C14: after a sort by priority or by due date, in either direction, two tasks
\* of equal priority, respectively equal due date, are in the order they were in
\* before the sort.
SortStable ==
    [][last'.op \in {"sortPriority", "sortDueDate"} =>
           \A i, j \in 1..Len(tasks) :
               (/\ i < j
                /\ IF last'.op = "sortPriority"
                   THEN tasks[i].priority = tasks[j].priority
                   ELSE tasks[i].dueDate = tasks[j].dueDate) =>
                   IndexOf(tasks', tasks[i].id) < IndexOf(tasks', tasks[j].id)]_vars

\* the two sequences hold the same records, each as often
SameRecords(a, b) ==
    /\ Len(a) = Len(b)
    /\ \A t \in {a[i] : i \in 1..Len(a)} \cup {b[i] : i \in 1..Len(b)} :
           Cardinality({i \in 1..Len(a) : a[i] = t})
               = Cardinality({i \in 1..Len(b) : b[i] = t})

\* C15: a sort by priority leaves the same records, ascending with priority
\* numbers that never decrease along the collection (Highest first), descending
\* with priority numbers that never increase (Lowest first).
SortByPriorityOrders ==
    [][last'.op = "sortPriority" =>
           \A ascending \in BOOLEAN :
               sortTasksByPriority(ascending) =>
                   /\ SameRecords(tasks, tasks')
                   /\ \A i \in 1..(Len(tasks') - 1) :
                          IF ascending
                          THEN tasks'[i].priority <= tasks'[i + 1].priority
                          ELSE tasks'[i].priority >= tasks'[i + 1].priority]_vars

\* tasks added as Medium, Highest, Lowest were sorted to Highest, Medium, Lowest
SortByPriorityOrdersWitness ==
    /\ last.op = "sortPriority"
    /\ Len(tasks) = 3
    /\ <<tasks[1].id, tasks[2].id, tasks[3].id>> = <<2, 1, 3>>
    /\ <<tasks[1].priority, tasks[2].priority, tasks[3].priority>> = <<1, 3, 5>>

\* C16: a Delete of an id that a task has removes that task and nothing else:
\* the id is gone, the other tasks keep their fields and their order, the
\* counter stays. A Delete of an id that no task has, as the second of two
\* Deletes of the same id is, warns and leaves collection and counter as they
\* were.
DeleteTwice ==
    [][last'.op = "delete" =>
           \A id \in QueryIds :
               deleteTask(id) =>
                   IF id \in Ids(tasks)
                   THEN /\ Len(tasks') = Len(tasks) - 1
                        /\ id \notin Ids(tasks')
                        /\ \A i \in 1..Len(tasks) :
                               tasks[i].id # id =>
                                   tasks'[IF i > IndexOf(tasks, id) THEN i - 1 ELSE i]
                                       = tasks[i]
                        /\ nextId' = nextId
                        /\ last'.err = <<>>
                   ELSE /\ tasks' = tasks
                        /\ nextId' = nextId
                        /\ last'.err = <<"Warning: No task found.">>]_vars

\* a Delete found no task with its id after a task had been deleted, while
\* other tasks were left
DeleteTwiceWitness ==
    /\ last.op = "delete"
    /\ last.err = <<"Warning: No task found.">>
    /\ tasks # <<>>
    /\ everIds \ Ids(tasks) # {}

\* C17: an Update of an id that no task has warns and leaves the collection and
\* the counter as they were, whatever fields are given.
UpdateNotFound ==
    [][last'.op = "update" =>
           \A id \in QueryIds \ Ids(tasks), desc \in QueryDescs,
              prio \in QueryPrios, comp \in OptComps :
               updateTask(id, desc, prio, comp, None) =>
                   /\ tasks' = tasks
                   /\ nextId' = nextId
                   /\ last'.err = <<"Warning: No task found.">>]_vars

\* an Update found no task with its id in a collection of two tasks
UpdateNotFoundWitness ==
    /\ last.op = "update"
    /\ last.err = <<"Warning: No task found.">>
    /\ Len(tasks) = 2

\* the number of completed tasks
NumCompleted == Len(SelectSeq(tasks, LAMBDA t : t.completed))

\* C18: the percentage shown, in hundredths of a percent, is 0 for the empty
\* collection and otherwise 100 * completed / total to two decimals; it is
\* within 0..100, and 25 for four tasks of which one is completed.
PercentageShown ==
    last.op = "percentage" =>
        LET p == last.shown[1]
            n == Len(tasks)
        IN  IF n = 0 THEN p = 0
            ELSE /\ ((2 * n * p) - (20000 * NumCompleted)) \in (0 - n)..n
                 /\ p \in 0..10000
                 /\ (n = 4 /\ NumCompleted = 1) => p = 2500

\* the percentage of four tasks of which one is completed was shown
PercentageShownWitness ==
    /\ last.op = "percentage"
    /\ Len(tasks) = 4
    /\ NumCompleted = 1
    /\ last.shown = <<2500>>

\* C19: a filter by status shows the tasks whose flag is the argument, each of
\* them once, in the order of the collection, and leaves the collection and the
\* counter as they were.
FilterShowsMatching ==
    [][last'.op = "filter" =>
           \A st \in BOOLEAN :
               filterTasksByStatus(st) =>
                   LET shown == last'.shown IN
                   /\ tasks' = tasks
                   /\ nextId' = nextId
                   /\ \A k \in 1..Len(shown) :
                          /\ shown[k].completed = st
                          /\ \E i \in 1..Len(tasks) : tasks[i] = shown[k]
                   /\ Len(shown) = Cardinality({i \in 1..Len(tasks) :
                                                   tasks[i].completed = st})
                   /\ \A k, l \in 1..Len(shown) :
                          k < l => IndexOf(tasks, shown[k].id)
                                       < IndexOf(tasks, shown[l].id)]_vars

\* two completed tasks out of three were shown
FilterShowsMatchingWitness ==
    /\ last.op = "filter"
    /\ Len(tasks) = 3
    /\ Len(last.shown) = 2
    /\ last.shown[1].completed

\* the lines of all tasks of the collection, in its order
AllLines(ts) == Concat([i \in 1..Len(ts) |-> TaskLine(ts[i])])

NextIdAboveIds ==
    /\ nextId >= 1
    /\ \A i \in 1..Len(tasks) : tasks[i].id < nextId

\* a Load in the middle of a run gave its one task the id 2
NextIdAboveIdsWitness ==
    /\ last.op = "load"
    /\ last.after = "edit"
    /\ Len(tasks) = 1
    /\ tasks[1].id = 2

====
